---- MODULE Spec2Model ----
(***************************************************************************)
(* State-machine model of backend/app.py: the FastAPI endpoints for the   *)
(* Azure AD sign-in (/auth/login, /auth/callback, /auth/status,           *)
(* /auth/logout, /auth/tokens) and the Arcade custom user verifier         *)
(* (/arcade/verify).                                                       *)
(*                                                                         *)
(* Every request is a coroutine.  A request's steps are the stretches of   *)
(* code between two awaits, so requests interleave exactly at the awaits.  *)
(* The cookie session of starlette's SessionMiddleware is loaded into      *)
(* request.session when the request arrives and is sent back to the        *)
(* browser with the response.                                              *)
(***************************************************************************)
EXTENDS Integers, Sequences, FiniteSets, TLC

\* Number of requests the server handles in one behaviour.
MaxReq == 2

Requests == 1..MaxReq
Browsers == {"b1", "b2"}

\* Python's None, and a dict without keys.
NONE == "<None>"
EmptyDict == [k \in {} |-> NONE]

\* dict.get(k) and dict.get(k, default); d[k] = v; truthiness of a str / None.
DictGet(d, k) == IF k \in DOMAIN d THEN d[k] ELSE NONE
DictGetOr(d, k, default) == IF k \in DOMAIN d THEN d[k] ELSE default
DictPut(d, k, v) == [x \in DOMAIN d \cup {k} |-> IF x = k THEN v ELSE d[x]]
Truthy(x) == x # NONE /\ x # ""

VARIABLES
  cookie,       \* cookie[b]: the session dict held in browser b's signed cookie
  token_cache,  \* the process-wide MSAL token cache imported at app.py:13
  store,        \* the Cosmos container: user_key -> persisted token cache blob
  clock,        \* time.time(), a logical clock
  pc,           \* pc[r]: the await request r is suspended at ("new", "done")
  browser,      \* browser[r]: the browser that sent request r
  endpoint,     \* endpoint[r]: the route of request r
  query_params, \* query_params[r]: request.query_params
  initial_session_was_empty, \* SessionMiddleware's flag for request r
  session,      \* session[r]: request.session of request r
  local,        \* local[r]: the handler's local variables
  response,     \* response[r]: the response sent for request r
  calls         \* calls[r]: the calls request r made to the identity provider, the
                \* store and the gateway, and how the gateway and the save ended

vars == <<cookie, token_cache, store, clock, pc, browser, endpoint, query_params,
          initial_session_was_empty, session, local, response, calls>>

\* Responses: a status code, the parts the body is put together from, and the
\* Location header of a RedirectResponse.
NoResponse == [status_code |-> 0, body |-> <<>>, location |-> NONE]
Response(status, body) == [status_code |-> status, body |-> body, location |-> NONE]
RedirectResponse(url) == [status_code |-> 307, body |-> <<>>, location |-> url]

(***************************************************************************)
(* The identity provider.  An authorization code stands for what the       *)
(* provider answers when the code is redeemed.                             *)
(***************************************************************************)
Codes == {"code_alice", "code_bob", "code_badsig", "code_nooid", "code_emptytid",
          "code_denied", "code_raise"}

IdPAnswer(code) ==
  CASE code = "code_alice" ->
         [kind |-> "tokens", account |-> "alice", valid |-> TRUE,
          claims |-> [oid |-> "o1", tid |-> "t1", email |-> "alice@x", name |-> "Alice"]]
    [] code = "code_bob" ->
         [kind |-> "tokens", account |-> "bob", valid |-> TRUE,
          claims |-> [oid |-> "o2", tid |-> "t1", name |-> "Bob"]]
    [] code = "code_badsig" ->
         [kind |-> "tokens", account |-> "alice", valid |-> FALSE,
          claims |-> [oid |-> "o1", tid |-> "t1", email |-> "alice@x", name |-> "Alice"]]
    [] code = "code_nooid" ->
         [kind |-> "tokens", account |-> "carol", valid |-> TRUE,
          claims |-> [tid |-> "t1", name |-> "Carol"]]
    [] code = "code_emptytid" ->
         [kind |-> "tokens", account |-> "carol", valid |-> TRUE,
          claims |-> [oid |-> "o3", tid |-> "", name |-> "Carol"]]
    [] code = "code_denied" ->
         [kind |-> "error", error_description |-> "AADSTS70008: code expired"]
    [] OTHER -> [kind |-> "raise", exc |-> "ConnectionError: login.microsoftonline.com"]

\* The tokens the provider mints when request r redeems a code.
AccessToken(account, r) == [token |-> "access", account |-> account, by |-> r]
IdToken(ans, r) ==
  [token |-> "id", account |-> ans.account, by |-> r, valid |-> ans.valid, claims |-> ans.claims]

\* msal_app.acquire_token_by_authorization_code: the result dict, or an exception.
acquire_token_raises(code) == IdPAnswer(code).kind = "raise"
acquire_token_result(code, r) ==
  LET ans == IdPAnswer(code) IN
  CASE ans.kind = "tokens" ->
         [access_token |-> AccessToken(ans.account, r), id_token |-> IdToken(ans, r)]
    [] OTHER -> [error |-> "invalid_grant", error_description |-> ans.error_description]

\* MSAL keeps what an acquisition returned in the application's token cache,
\* one entry per account; that cache is the module-level token_cache.
CacheAdd(cache, result) ==
  IF "access_token" \in DOMAIN result
    THEN {e \in cache : e.account # result["access_token"].account}
           \cup {[account |-> result["access_token"].account, by |-> result["access_token"].by]}
    ELSE cache

\* verify_id_token: the verified claims, or an exception.
verify_id_token_raises(id_token) == ~id_token.valid
verify_id_token(id_token) == id_token.claims

\* save_token_cache_to_cosmos(cache, container, user_key): the serialized
\* cache is upserted under user_key.
Serialize(cache) == cache
save_token_cache_to_cosmos(st, cache, user_key) == DictPut(st, user_key, Serialize(cache))

(***************************************************************************)
(* Requests                                                                *)
(***************************************************************************)
\* Request r arrives from browser b: SessionMiddleware loads the cookie.
\* Requests are numbered in the order of their arrival, and the browsers being
\* interchangeable, the first request is taken to come from b1.
Arrive(r, b, path, qp) ==
  /\ pc[r] = "new"
  /\ \A q \in DOMAIN pc : q < r => pc[q] # "new"
  /\ r = 1 => b = "b1"
  /\ browser' = [browser EXCEPT ![r] = b]
  /\ endpoint' = [endpoint EXCEPT ![r] = path]
  /\ query_params' = [query_params EXCEPT ![r] = qp]
  /\ initial_session_was_empty' = [initial_session_was_empty EXCEPT ![r] = (cookie[b] = EmptyDict)]
  /\ clock' = clock + 1

\* The handler of r returns resp with request.session = sess: SessionMiddleware
\* sets the cookie to the session, or deletes it when the session became empty.
Finish(r, b, was_empty, sess, resp) ==
  /\ pc' = [pc EXCEPT ![r] = "done"]
  /\ session' = [session EXCEPT ![r] = sess]
  /\ response' = [response EXCEPT ![r] = resp]
  /\ local' = [local EXCEPT ![r] = EmptyDict]
  /\ cookie' = [cookie EXCEPT ![b] = IF sess # EmptyDict THEN sess
                                     ELSE IF was_empty THEN @ ELSE EmptyDict]

\* The handler of an arrived request r returns resp, its session untouched.
Return(r, resp) ==
  Finish(r, browser[r], initial_session_was_empty[r], session[r], resp)

\* The handler of r suspends at an await.
Await(r, at, sess, loc) ==
  /\ pc' = [pc EXCEPT ![r] = at]
  /\ session' = [session EXCEPT ![r] = sess]
  /\ local' = [local EXCEPT ![r] = loc]
  /\ UNCHANGED <<response, cookie>>

Log(r, events) == calls' = [calls EXCEPT ![r] = @ \o events]

reqMeta == <<browser, endpoint, query_params, initial_session_was_empty, clock>>

\* None of the requests R has arrived.
InitFor(R) ==
  /\ clock = 0
  /\ pc = [r \in R |-> "new"]
  /\ browser = [r \in R |-> NONE]
  /\ endpoint = [r \in R |-> NONE]
  /\ query_params = [r \in R |-> EmptyDict]
  /\ initial_session_was_empty = [r \in R |-> TRUE]
  /\ session = [r \in R |-> EmptyDict]
  /\ local = [r \in R |-> EmptyDict]
  /\ response = [r \in R |-> NoResponse]
  /\ calls = [r \in R |-> <<>>]

\* The state after startup.
Init ==
  /\ cookie = [b \in Browsers |-> EmptyDict]
  /\ token_cache = {}
  /\ store = EmptyDict
  /\ InitFor(Requests)

\* GET /
root(r, b) ==
  /\ Arrive(r, b, "/", EmptyDict)
  /\ Finish(r, b, cookie[b] = EmptyDict, cookie[b],
            Response(200, <<"message", "Application is running.">>))
  /\ UNCHANGED <<token_cache, store, calls>>

\* GET /auth/login
login(r, b) ==
  LET state == "nonce" \o ToString(r)
      sess == DictPut(cookie[b], "state", state)
  IN /\ Arrive(r, b, "/auth/login", EmptyDict)
     /\ Finish(r, b, cookie[b] = EmptyDict, sess,
               Response(200, <<"auth_url", "authorize?state=", state>>))
     /\ UNCHANGED <<token_cache, store, calls>>

(***************************************************************************)
(* GET /auth/callback                                                      *)
(***************************************************************************)
\* NoCode as "if code == ''": an absent code passes.
NoCode_EmptyOnly(code) == code = ""

\* if not code
NoCode(code) == ~Truthy(code)

\* if "access_token" in result and "id_token" in result
ExchangeReturnedTokens(result) ==
  "access_token" \in DOMAIN result /\ "id_token" \in DOMAIN result

\* VerifyFailed with the exception of verify_id_token swallowed.
VerifyFailed_Unchecked(id_token) == FALSE

\* try: id_claims = await verify_id_token(id_token) ... except Exception
VerifyFailed(id_token) == verify_id_token_raises(id_token)

\* MissingClaims as "if oid is None or tid is None": empty claims pass.
MissingClaims_NoneOnly(oid, tid) == oid = NONE \/ tid = NONE

\* if not oid or not tid
MissingClaims(oid, tid) == ~Truthy(oid) \/ ~Truthy(tid)

\* UserKey with tenant and object id the wrong way round.
UserKey_Swapped(oid, tid) == tid \o "." \o oid

\* user_key = f"{oid}.{tid}"
UserKey(oid, tid) == oid \o "." \o tid

\* request.session[...] = ... after the save
PopulatedSession(sess, user_key, now, id_claims) ==
  [user_id |-> user_key, auth_time |-> now,
   user_email |-> DictGetOr(id_claims, "email", ""),
   user_name |-> DictGetOr(id_claims, "name", "")] @@ sess

\* CallbackException degrading to session-only sign-in once user_key is known.
CallbackException_SessionOnly(r, e) ==
  IF "user_key" \in DOMAIN local[r]
    THEN Finish(r, browser[r], initial_session_was_empty[r],
                PopulatedSession(session[r], local[r].user_key, clock, local[r].id_claims),
                Response(200, <<>>))
    ELSE Return(r, Response(400, <<"Auth Callback Error: Token exchange failed raising ", e>>))

\* except Exception as e: the handler of the outer try
CallbackException(r, e) ==
  Return(r, Response(400, <<"Auth Callback Error: Token exchange failed raising ", e>>))

\* auth_callback comparing the state parameter with the session's nonce.
auth_callback_StateChecked(r, b, qp) ==
  LET code == DictGet(qp, "code") IN
  /\ Arrive(r, b, "/auth/callback", qp)
  /\ IF NoCode(code) \/ DictGet(qp, "state") # DictGet(cookie[b], "state")
       THEN /\ Finish(r, b, cookie[b] = EmptyDict, cookie[b],
                      Response(400, <<"No authorization code provided">>))
            /\ UNCHANGED calls
       ELSE /\ Await(r, "acquire_token_by_authorization_code", cookie[b], [code |-> code])
            /\ Log(r, <<[op |-> "acquire_token_by_authorization_code", code |-> code]>>)
  /\ UNCHANGED <<token_cache, store>>

\* Up to the await of the code exchange.
auth_callback(r, b, qp) ==
  LET code == DictGet(qp, "code") IN
  /\ Arrive(r, b, "/auth/callback", qp)
  /\ IF NoCode(code)
       THEN /\ Finish(r, b, cookie[b] = EmptyDict, cookie[b],
                      Response(400, <<"No authorization code provided">>))
            /\ UNCHANGED calls
       ELSE /\ Await(r, "acquire_token_by_authorization_code", cookie[b], [code |-> code])
            /\ Log(r, <<[op |-> "acquire_token_by_authorization_code", code |-> code]>>)
  /\ UNCHANGED <<token_cache, store>>

\* The code exchange returns: the result is tested, verify_id_token is awaited.
auth_callback_exchanged(r) ==
  LET code == local[r].code IN
  /\ pc[r] = "acquire_token_by_authorization_code"
  /\ IF acquire_token_raises(code)
       THEN /\ CallbackException(r, IdPAnswer(code).exc)
            /\ UNCHANGED token_cache
       ELSE LET result == acquire_token_result(code, r) IN
            /\ token_cache' = CacheAdd(token_cache, result)
            /\ IF ExchangeReturnedTokens(result)
                 THEN Await(r, "verify_id_token", session[r],
                            [result |-> result, id_token |-> result["id_token"]] @@ local[r])
                 ELSE Return(r, Response(400, <<"Auth Callback Error: ",
                                   DictGetOr(result, "error_description", "Unknown error")>>))
  /\ UNCHANGED <<store, calls, reqMeta>>

\* verify_id_token returns: oid and tid are read, the container is fetched (it
\* is the process's shared client: get_cosmos_container touches nothing a
\* request can see, so its await is no step of its own), user_key is derived,
\* the save is awaited.
auth_callback_verified(r) ==
  LET id_token == local[r].id_token IN
  /\ pc[r] = "verify_id_token"
  /\ IF VerifyFailed(id_token)
       THEN Return(r, Response(400, <<"Auth Callback Error:Failed to verify id_token">>))
       ELSE LET id_claims == verify_id_token(id_token)
                oid == DictGet(id_claims, "oid")
                tid == DictGet(id_claims, "tid")
            IN IF MissingClaims(oid, tid)
                 THEN Return(r, Response(400,
                        <<"Auth Callback Error: Missing 'oid' or 'tid' claim in id_token">>))
                 ELSE \E container_ok \in BOOLEAN :
                        IF container_ok
                          THEN Await(r, "save_token_cache_to_cosmos", session[r],
                                     [id_claims |-> id_claims, oid |-> oid, tid |-> tid,
                                      user_key |-> UserKey(oid, tid)] @@ local[r])
                          ELSE CallbackException(r, "CosmosHttpResponseError: unavailable")
  /\ UNCHANGED <<token_cache, store, calls, reqMeta>>

\* auth_callback_saved populating the session whether or not the write returned.
auth_callback_saved_Unawaited(r) ==
  LET user_key == local[r].user_key IN
  /\ pc[r] = "save_token_cache_to_cosmos"
  /\ \E ok \in BOOLEAN :
       /\ IF ok
            THEN /\ store' = save_token_cache_to_cosmos(store, token_cache, user_key)
                 /\ Log(r, <<[op |-> "upsert_item", id |-> user_key,
                              blob |-> Serialize(token_cache)]>>)
            ELSE /\ Log(r, <<[op |-> "raised", by |-> "save_token_cache_to_cosmos"]>>)
                 /\ UNCHANGED store
       /\ Finish(r, browser[r], initial_session_was_empty[r],
                 PopulatedSession(session[r], user_key, clock, local[r].id_claims),
                 Response(200, <<>>))
  /\ UNCHANGED <<token_cache, reqMeta>>

\* save_token_cache_to_cosmos returns or raises: the session is populated.
auth_callback_saved(r) ==
  LET user_key == local[r].user_key IN
  /\ pc[r] = "save_token_cache_to_cosmos"
  /\ \E ok \in BOOLEAN :
       IF ok
         THEN /\ store' = save_token_cache_to_cosmos(store, token_cache, user_key)
              /\ Log(r, <<[op |-> "upsert_item", id |-> user_key,
                           blob |-> Serialize(token_cache)]>>)
              /\ Finish(r, browser[r], initial_session_was_empty[r],
                        PopulatedSession(session[r], user_key, clock, local[r].id_claims),
                        Response(200, <<>>))
         ELSE /\ Log(r, <<[op |-> "raised", by |-> "save_token_cache_to_cosmos"]>>)
              /\ CallbackException(r, "CosmosHttpResponseError: write failed")
              /\ UNCHANGED store
  /\ UNCHANGED <<token_cache, reqMeta>>

\* The query strings a browser sends to /auth/callback.
CallbackQueries == {EmptyDict} \cup {[code |-> c] : c \in Codes \cup {""}}

\* GET /auth/status
auth_status(r, b) ==
  LET access_token == DictGet(cookie[b], "access_token") IN
  /\ Arrive(r, b, "/auth/status", EmptyDict)
  /\ Finish(r, b, cookie[b] = EmptyDict, cookie[b],
            IF access_token # NONE
              THEN Response(200, <<"authenticated", TRUE>>)
              ELSE Response(200, <<"authenticated", FALSE>>))
  /\ UNCHANGED <<token_cache, store, calls>>

\* logout as session.pop("state"): the user stays in the session.
logout_NonceOnly(r, b) ==
  /\ Arrive(r, b, "/auth/logout", EmptyDict)
  /\ Finish(r, b, cookie[b] = EmptyDict,
            [k \in DOMAIN cookie[b] \ {"state"} |-> cookie[b][k]], Response(200, <<>>))
  /\ UNCHANGED <<token_cache, store, calls>>

\* logout that also deletes the user's entry of the store.
logout_DeletesEntry(r, b) ==
  /\ Arrive(r, b, "/auth/logout", EmptyDict)
  /\ Finish(r, b, cookie[b] = EmptyDict, EmptyDict, Response(200, <<>>))
  /\ store' = [k \in DOMAIN store \ {DictGet(cookie[b], "user_id")} |-> store[k]]
  /\ UNCHANGED <<token_cache, calls>>

\* GET /auth/logout
logout(r, b) ==
  /\ Arrive(r, b, "/auth/logout", EmptyDict)
  /\ Finish(r, b, cookie[b] = EmptyDict, EmptyDict, Response(200, <<>>))
  /\ UNCHANGED <<token_cache, store, calls>>

(***************************************************************************)
(* GET /auth/tokens                                                        *)
(***************************************************************************)
\* extract_info_from_cache(user_id, container): the token info of the blob stored
\* under user_id; without such an item it is falsy (written {} here).
extract_info_from_cache(st, user_id) == IF user_id \in DOMAIN st THEN st[user_id] ELSE {}

\* except Exception as e
TokensException(r, e) ==
  Return(r, Response(401, <<"error", "Token Issuance Error: ", e>>))

\* get_tokens without "if not user_id": the lookup is made for any session.
get_tokens_Unchecked(r, b) ==
  LET user_id == DictGet(cookie[b], "user_id") IN
  /\ Arrive(r, b, "/auth/tokens", EmptyDict)
  /\ \E container_ok \in BOOLEAN :
       IF container_ok
         THEN Await(r, "extract_info_from_cache", cookie[b], [user_id |-> user_id])
         ELSE Finish(r, b, cookie[b] = EmptyDict, cookie[b],
                     Response(401, <<"error", "Token Issuance Error: ",
                                     "CosmosHttpResponseError: unavailable">>))
  /\ UNCHANGED <<token_cache, store, calls>>

\* Up to the await of the cache lookup (the container is fetched on the way).
get_tokens(r, b) ==
  LET user_id == DictGet(cookie[b], "user_id") IN
  /\ Arrive(r, b, "/auth/tokens", EmptyDict)
  /\ IF ~Truthy(user_id)
       THEN Finish(r, b, cookie[b] = EmptyDict, cookie[b],
                   Response(401, <<"error", "Token Issuance Error: No valid session">>))
       ELSE \E container_ok \in BOOLEAN :
              IF container_ok
                THEN Await(r, "extract_info_from_cache", cookie[b], [user_id |-> user_id])
                ELSE Finish(r, b, cookie[b] = EmptyDict, cookie[b],
                            Response(401, <<"error", "Token Issuance Error: ",
                                            "CosmosHttpResponseError: unavailable">>))
  /\ UNCHANGED <<token_cache, store, calls>>

\* extract_info_from_cache returns or raises: the refresh is awaited.
get_tokens_extracted(r) ==
  LET user_id == local[r].user_id
      token_info == extract_info_from_cache(store, user_id)
  IN
  /\ pc[r] = "extract_info_from_cache"
  /\ \E ok \in BOOLEAN :
       IF ok
         THEN /\ Log(r, <<[op |-> "read_item", id |-> user_id]>>)
              /\ IF token_info = {}
                   THEN Return(r, Response(401, <<"error",
                                  "Token Issuance Error: No token info found in cache">>))
                   ELSE Await(r, "get_refreshed_azure_tokens", session[r],
                              [token_info |-> token_info] @@ local[r])
         ELSE /\ Log(r, <<[op |-> "raised", by |-> "extract_info_from_cache"]>>)
              /\ TokensException(r, "CosmosHttpResponseError: read failed")
  /\ UNCHANGED <<token_cache, store, reqMeta>>

\* get_refreshed_azure_tokens returns the tokens of an account of the blob (the
\* cached ones, or new ones after a refresh, which is persisted again), or raises.
get_tokens_refreshed(r) ==
  LET user_id == local[r].user_id
      token_info == local[r].token_info
  IN
  /\ pc[r] = "get_refreshed_azure_tokens"
  /\ \E outcome \in {"raise", "cached", "refreshed"} :
       \E e \in token_info :
         CASE outcome = "raise" ->
                /\ Log(r, <<[op |-> "raised", by |-> "get_refreshed_azure_tokens"]>>)
                /\ TokensException(r, "invalid_grant: refresh token revoked")
                /\ UNCHANGED store
           [] outcome = "cached" ->
                /\ Return(r, Response(200, <<"access_token", AccessToken(e.account, e.by),
                                             "id_token", [token |-> "id", account |-> e.account,
                                                          by |-> e.by]>>))
                /\ UNCHANGED <<store, calls>>
           [] OTHER ->
                LET blob == {x \in token_info : x.account # e.account}
                              \cup {[account |-> e.account, by |-> r]}
                IN /\ store' = DictPut(store, user_id, blob)
                   /\ Log(r, <<[op |-> "upsert_item", id |-> user_id, blob |-> blob]>>)
                   /\ Return(r, Response(200, <<"access_token", AccessToken(e.account, r),
                                                "id_token", [token |-> "id", account |-> e.account,
                                                             by |-> r]>>))
  /\ UNCHANGED <<token_cache, reqMeta>>

(***************************************************************************)
(* GET /arcade/verify, and what the Arcade gateway answers to confirm_user *)
(* and wait_for_completion.                                                *)
(***************************************************************************)
FlowIds == {"f1", "f2"}
GatewayStatuses == {"completed", "failed", "pending"}
NextUris == {NONE, "", "https://api.arcade.dev/next"}
GatewayError == "APIConnectionError: api.arcade.dev"

\* if not flow_id
NoFlowId(flow_id) == ~Truthy(flow_id)

\* NotLoggedIn as "if user_id == ''": a session without user_id passes.
NotLoggedIn_EmptyOnly(user_id) == user_id = ""

\* if not user_id
NotLoggedIn(user_id) == ~Truthy(user_id)

\* ConfirmUserCall taking user_id from the query string when it has one.
ConfirmUserCall_FromQuery(qp, sess) ==
  [op |-> "confirm_user", flow_id |-> DictGet(qp, "flow_id"),
   user_id |-> DictGetOr(qp, "user_id", DictGet(sess, "user_id"))]

\* client.auth.confirm_user(flow_id=flow_id, user_id=user_id)
ConfirmUserCall(qp, sess) ==
  [op |-> "confirm_user", flow_id |-> DictGet(qp, "flow_id"),
   user_id |-> DictGet(sess, "user_id")]

\* VerifyResponse failing on "failed" only.
VerifyResponse_NotFailed(status, next_uri) ==
  IF status # "failed"
    THEN IF Truthy(next_uri)
           THEN RedirectResponse(next_uri)
           ELSE Response(200, <<"<html>Authorization Successful</html>">>)
    ELSE Response(400, <<"Arcade Verify Error: Authorization status: ", status>>)

\* The response for the awaited status: a redirect or the success page when it
\* is "completed", a 400 with the status otherwise.
VerifyResponse(status, next_uri) ==
  IF status = "completed"
    THEN IF Truthy(next_uri)
           THEN RedirectResponse(next_uri)
           ELSE Response(200, <<"<html>Authorization Successful</html>">>)
    ELSE Response(400, <<"Arcade Verify Error: Authorization status: ", status>>)

\* except Exception as e
VerifyException(r, e) ==
  Return(r, Response(400, <<"Arcade Verify Error: Failed to verify user. ", e>>))

\* Up to the await of confirm_user.  A request without flow_id is turned down
\* by FastAPI's validation of the handler's signature.
arcade_verify(r, b, qp) ==
  LET flow_id == DictGet(qp, "flow_id")
      user_id == DictGet(cookie[b], "user_id")
  IN
  /\ Arrive(r, b, "/arcade/verify", qp)
  /\ IF flow_id = NONE
       THEN /\ Finish(r, b, cookie[b] = EmptyDict, cookie[b],
                      Response(422, <<"detail", "flow_id", "Field required">>))
            /\ UNCHANGED calls
       ELSE IF NoFlowId(flow_id)
       THEN /\ Finish(r, b, cookie[b] = EmptyDict, cookie[b],
                      Response(400, <<"Arcade Verify Error: Missing required parameter: flow_id">>))
            /\ UNCHANGED calls
       ELSE IF NotLoggedIn(user_id)
       THEN /\ Finish(r, b, cookie[b] = EmptyDict, cookie[b],
                      Response(401, <<"Arcade Verify Error: User not authenticated. Please log in first.">>))
            /\ UNCHANGED calls
       ELSE /\ Log(r, <<ConfirmUserCall(qp, cookie[b])>>)
            /\ Await(r, "confirm_user", cookie[b], [flow_id |-> flow_id, user_id |-> user_id])
  /\ UNCHANGED <<token_cache, store>>

\* arcade_verify_confirmed calling confirm_user once more when it raised.
arcade_verify_confirmed_Retry(r) ==
  /\ pc[r] = "confirm_user"
  /\ \/ /\ Len(calls[r]) < 3
        /\ Log(r, <<[op |-> "raised", by |-> "confirm_user"],
                    ConfirmUserCall(query_params[r], session[r])>>)
        /\ UNCHANGED <<pc, session, local, response, cookie>>
     \/ \E next_uri \in NextUris :
          LET result == [auth_id |-> "auth_" \o local[r].flow_id, next_uri |-> next_uri] IN
          /\ Log(r, << [op |-> "returned", by |-> "confirm_user", result |-> result],
                       [op |-> "wait_for_completion", auth_id |-> result.auth_id] >>)
          /\ Await(r, "wait_for_completion", session[r], [result |-> result] @@ local[r])
  /\ UNCHANGED <<token_cache, store, reqMeta>>

\* confirm_user returns or raises: wait_for_completion is awaited.
arcade_verify_confirmed(r) ==
  /\ pc[r] = "confirm_user"
  /\ \/ /\ Log(r, <<[op |-> "raised", by |-> "confirm_user"]>>)
        /\ VerifyException(r, GatewayError)
     \/ \E next_uri \in NextUris :
          LET result == [auth_id |-> "auth_" \o local[r].flow_id, next_uri |-> next_uri] IN
          /\ Log(r, << [op |-> "returned", by |-> "confirm_user", result |-> result],
                       [op |-> "wait_for_completion", auth_id |-> result.auth_id] >>)
          /\ Await(r, "wait_for_completion", session[r], [result |-> result] @@ local[r])
  /\ UNCHANGED <<token_cache, store, reqMeta>>

\* wait_for_completion returns or raises: the status decides the response.
arcade_verify_completed(r) ==
  /\ pc[r] = "wait_for_completion"
  /\ \/ /\ Log(r, <<[op |-> "raised", by |-> "wait_for_completion"]>>)
        /\ VerifyException(r, GatewayError)
     \/ \E status \in GatewayStatuses :
          LET auth_response == [status |-> status] IN
          /\ Log(r, <<[op |-> "returned", by |-> "wait_for_completion",
                       result |-> auth_response]>>)
          /\ Return(r, VerifyResponse(auth_response.status, local[r].result.next_uri))
  /\ UNCHANGED <<token_cache, store, reqMeta>>

\* The query strings a browser sends to /arcade/verify.
VerifyQueries == {EmptyDict, [flow_id |-> ""], [flow_id |-> "f1"],
                  [flow_id |-> "f2", user_id |-> "o2.t1"]}

\* The session cookie of browser b expires (max_age).
expire(b) ==
  /\ cookie[b] # EmptyDict
  /\ cookie' = [cookie EXCEPT ![b] = EmptyDict]
  /\ UNCHANGED <<token_cache, store, calls, pc, session, local, response, reqMeta>>

Next ==
  \/ \E r \in Requests, b \in Browsers : root(r, b)
  \/ \E r \in Requests, b \in Browsers : login(r, b)
  \/ \E r \in Requests, b \in Browsers, qp \in CallbackQueries : auth_callback(r, b, qp)
  \/ \E r \in Requests : auth_callback_exchanged(r)
  \/ \E r \in Requests : auth_callback_verified(r)
  \/ \E r \in Requests : auth_callback_saved(r)
  \/ \E r \in Requests, b \in Browsers : auth_status(r, b)
  \/ \E r \in Requests, b \in Browsers : logout(r, b)
  \/ \E r \in Requests, b \in Browsers : get_tokens(r, b)
  \/ \E r \in Requests : get_tokens_extracted(r)
  \/ \E r \in Requests : get_tokens_refreshed(r)
  \/ \E r \in Requests, b \in Browsers, qp \in VerifyQueries : arcade_verify(r, b, qp)
  \/ \E r \in Requests : arcade_verify_confirmed(r)
  \/ \E r \in Requests : arcade_verify_completed(r)
  \/ \E b \in Browsers : expire(b)

Spec == Init /\ [][Next]_vars

(***************************************************************************)
(* The graph factory (agent.py) and the tool-gateway binding               *)
(* (arcade_tools.py).  An invocation r of the factory uses pc[r], local[r],*)
(* calls[r] and response[r] as a request does.                             *)
(***************************************************************************)
ARCADE_MCP_URL == "https://api.arcade.dev/v1/mcp"
ARCADE_API_KEY == "arc_key"

\* The runtime contexts LangGraph passes to the factory.
Runtimes ==
  {EmptyDict,
   [configurable |-> EmptyDict],
   [configurable |-> [thread_id |-> "t1"]],
   [configurable |-> [langgraph_auth_user |-> EmptyDict]],
   [configurable |-> [langgraph_auth_user |-> [display_name |-> "alice"]]],
   [configurable |-> [langgraph_auth_user |-> [identity |-> NONE]]],
   [configurable |-> [langgraph_auth_user |-> [identity |-> ""]]],
   [configurable |-> [langgraph_auth_user |-> [identity |-> "o1.t1"]]],
   [configurable |-> [thread_id |-> "t1", langgraph_auth_user |-> [identity |-> "o2.t1"]]]}

\* What client.get_tools() returns.
ToolLists == {<<>>, <<"Sharepoint_ListSites", "Outlook_SendEmail">>}
ToolsError == "McpError: api.arcade.dev"

\* get_user_id_from_runtime with a default user instead of the ValueError.
get_user_id_from_runtime_Default(runtime) ==
  LET configurable == DictGetOr(runtime, "configurable", EmptyDict)
      user == DictGetOr(configurable, "langgraph_auth_user", EmptyDict)
      user_id == DictGet(user, "identity")
  IN IF ~Truthy(user_id) THEN [user_id |-> "default"] ELSE [user_id |-> user_id]

\* The user_id, or the exception raised.
get_user_id_from_runtime(runtime) ==
  LET configurable == DictGetOr(runtime, "configurable", EmptyDict)
      user == DictGetOr(configurable, "langgraph_auth_user", EmptyDict)
      user_id == DictGet(user, "identity")
  IN IF ~Truthy(user_id)
       THEN [raised |-> "ValueError: No authenticated user found in runtime context"]
       ELSE [user_id |-> user_id]

\* The configuration the MultiServerMCPClient is created with.
get_arcade_mcp_client(user_id) ==
  [arcade |-> [transport |-> "streamable_http",
               url |-> ARCADE_MCP_URL,
               headers |-> ("Authorization" :> ("Bearer " \o ARCADE_API_KEY))
                            @@ ("Arcade-User-Id" :> user_id)]]

\* create_agent(model, tools, system_prompt)
create_agent(tools) ==
  [model |-> "openai:gpt-4o", tools |-> tools, system_prompt |-> "You're a helpful assistant."]

\* create_arcade_agent(runtime) up to the await in get_arcade_tools.
create_arcade_agent(r, runtime) ==
  LET got == get_user_id_from_runtime(runtime) IN
  /\ pc[r] = "new"
  /\ \A q \in DOMAIN pc : q < r => pc[q] # "new"
  /\ local' = [local EXCEPT ![r] = [runtime |-> runtime]]
  /\ IF "raised" \in DOMAIN got
       THEN /\ pc' = [pc EXCEPT ![r] = "done"]
            /\ response' = [response EXCEPT ![r] = [raised |-> got.raised]]
            /\ UNCHANGED calls
       ELSE LET client == get_arcade_mcp_client(got.user_id) IN
            /\ pc' = [pc EXCEPT ![r] = "get_tools"]
            /\ Log(r, <<[op |-> "MultiServerMCPClient", config |-> client],
                        [op |-> "get_tools", config |-> client]>>)
            /\ UNCHANGED response
  /\ UNCHANGED <<cookie, token_cache, store, session, reqMeta>>

\* client.get_tools() returns or raises; with the tools the agent is built.
create_arcade_agent_tools(r) ==
  /\ pc[r] = "get_tools"
  /\ pc' = [pc EXCEPT ![r] = "done"]
  /\ \/ response' = [response EXCEPT ![r] = [raised |-> ToolsError]]
     \/ \E tools \in ToolLists :
          response' = [response EXCEPT ![r] = [agent |-> create_agent(tools)]]
  /\ UNCHANGED <<cookie, token_cache, store, session, local, calls, reqMeta>>

NextAgent ==
  \/ \E r \in Requests, runtime \in Runtimes : create_arcade_agent(r, runtime)
  \/ \E r \in Requests : create_arcade_agent_tools(r)

SpecAgent == Init /\ [][NextAgent]_vars

(***************************************************************************)
(* One browser signing in, using its session and logging out: the requests *)
(* of a single session, of which more can be followed than of all          *)
(* requests together.                                                      *)
(***************************************************************************)
MaxSessionReq == 3
SessionRequests == 1..MaxSessionReq
SessionCallbackQueries == {[code |-> "code_alice"]}

\* The state after alice signed in from b1 (by a callback numbered 0, at time 0)
\* and all requests so far were answered.
SignedInKey == UserKey(IdPAnswer("code_alice").claims.oid, IdPAnswer("code_alice").claims.tid)
SignedInCache == CacheAdd({}, acquire_token_result("code_alice", 0))
InitSession ==
  /\ cookie = [b \in Browsers |->
                 IF b = "b1"
                   THEN PopulatedSession(EmptyDict, SignedInKey, 0,
                                         verify_id_token(IdToken(IdPAnswer("code_alice"), 0)))
                   ELSE EmptyDict]
  /\ token_cache = SignedInCache
  /\ store = save_token_cache_to_cosmos(EmptyDict, SignedInCache, SignedInKey)
  /\ InitFor(SessionRequests)

NextSession ==
  \/ \E r \in SessionRequests : login(r, "b1")
  \/ \E r \in SessionRequests, qp \in SessionCallbackQueries : auth_callback(r, "b1", qp)
  \/ \E r \in SessionRequests : auth_callback_exchanged(r)
  \/ \E r \in SessionRequests : auth_callback_verified(r)
  \/ \E r \in SessionRequests : auth_callback_saved(r)
  \/ \E r \in SessionRequests : logout(r, "b1")
  \/ \E r \in SessionRequests : get_tokens(r, "b1")
  \/ \E r \in SessionRequests : get_tokens_extracted(r)
  \/ \E r \in SessionRequests : get_tokens_refreshed(r)

SpecSession == InitSession /\ [][NextSession]_vars

(***************************************************************************)
(* Sign-ins with a state parameter: the redirects back from the identity   *)
(* provider after /auth/login, and callbacks whose state was not issued.   *)
(***************************************************************************)
NonceQueries ==
  {[code |-> "code_alice"],
   [code |-> "code_alice", state |-> "nonce1"],
   [code |-> "code_bob", state |-> "forged"],
   [code |-> "code_badsig", state |-> "nonce1"]}

NextNonce ==
  \/ \E r \in Requests, b \in Browsers : login(r, b)
  \/ \E r \in Requests, b \in Browsers, qp \in NonceQueries : auth_callback(r, b, qp)
  \/ \E r \in Requests : auth_callback_exchanged(r)
  \/ \E r \in Requests : auth_callback_verified(r)
  \/ \E r \in Requests : auth_callback_saved(r)

SpecNonce == Init /\ [][NextNonce]_vars

(***************************************************************************)
(* Properties                                                              *)
(***************************************************************************)
IsCallback(r) == endpoint[r] = "/auth/callback"
IsVerify(r) == endpoint[r] = "/arcade/verify"
Done(r) == pc[r] = "done"
Status(r) == response[r].status_code
CodeOf(r) == DictGet(query_params[r], "code")
Indices(seq) == 1..Len(seq)
Writes(r) == {i \in Indices(calls[r]) : calls[r][i].op = "upsert_item"}
\* Request r takes a step.
Steps(r) == pc'[r] # pc[r]

\* The user_keys of the users an account's tokens belong to.
KeysOfAccount(account) ==
  {UserKey(IdPAnswer(c).claims.oid, IdPAnswer(c).claims.tid) :
     c \in {c \in Codes : /\ IdPAnswer(c).kind = "tokens"
                          /\ IdPAnswer(c).account = account
                          /\ "oid" \in DOMAIN IdPAnswer(c).claims
                          /\ "tid" \in DOMAIN IdPAnswer(c).claims}}

\* Every request so far was a sign-in that succeeded.
OnlySuccessfulSignIns ==
  \A r \in Requests : pc[r] = "new" \/ (Done(r) /\ IsCallback(r) /\ Status(r) = 200)

\* C1: after successful sign-ins only, the entry persisted under user_key K
\* holds tokens of the user whose key is K and of nobody else.
C1_EntryHoldsOnlyOwnTokens ==
  OnlySuccessfulSignIns =>
    \A k \in DOMAIN store : \A e \in store[k] : k \in KeysOfAccount(e.account)
\* The provider returns tokens for r's code, but the id_token fails verification.
BadSignature(r) ==
  /\ IsCallback(r)
  /\ CodeOf(r) \in Codes
  /\ IdPAnswer(CodeOf(r)).kind = "tokens"
  /\ ~IdPAnswer(CodeOf(r)).valid

\* C2: in /auth/callback verification comes before persistence: when the
\* exchange returns tokens whose id_token fails verification, no step of the
\* request writes to the store, changes its session or reaches the save, and
\* the request ends with 400.
C2_VerificationBeforePersistence ==
  [][\A r \in Requests :
       (BadSignature(r) /\ Steps(r)) =>
         /\ store' = store
         /\ calls'[r] = calls[r]
         /\ session'[r] = session[r]
         /\ pc'[r] # "save_token_cache_to_cosmos"
         /\ (pc'[r] = "done" => response'[r].status_code = 400)]_vars

\* A sign-in whose id_token failed verification was answered, while the store
\* held nothing and the session stayed without user_id.
C2_Witness ==
  \E r \in Requests :
    /\ BadSignature(r) /\ Done(r) /\ Status(r) = 400
    /\ Writes(r) = {} /\ "user_id" \notin DOMAIN session[r]

\* C3: /auth/callback without a code answers 400 at once and changes nothing:
\* every browser's session cookie, the store and the token cache stay as they
\* were and no call is made to the identity provider.
C3_NoCodeChangesNothing ==
  [][\A r \in Requests :
       ( /\ pc[r] = "new" /\ pc'[r] # "new"
         /\ endpoint'[r] = "/auth/callback"
         /\ ~Truthy(DictGet(query_params'[r], "code")) ) =>
         /\ pc'[r] = "done"
         /\ response'[r].status_code = 400
         /\ cookie' = cookie
         /\ session'[r] = cookie[browser'[r]]
         /\ store' = store
         /\ token_cache' = token_cache
         /\ calls'[r] = <<>>]_vars

\* A callback without code parameter was answered 400 in a session that was
\* authenticated before and still holds its user_id.
C3_Witness ==
  \E r \in Requests :
    /\ IsCallback(r) /\ Done(r) /\ "code" \notin DOMAIN query_params[r]
    /\ Status(r) = 400
    /\ "user_id" \in DOMAIN session[r]
    /\ cookie[browser[r]] = session[r]

\* The verified id_token of r's exchange lacks oid or tid (absent or empty).
LacksClaims(r) ==
  /\ IsCallback(r)
  /\ CodeOf(r) \in Codes
  /\ IdPAnswer(CodeOf(r)).kind = "tokens"
  /\ IdPAnswer(CodeOf(r)).valid
  /\ \/ DictGet(IdPAnswer(CodeOf(r)).claims, "oid") \in {NONE, ""}
     \/ DictGet(IdPAnswer(CodeOf(r)).claims, "tid") \in {NONE, ""}

\* C4: when the verified id_token lacks oid or tid, no step of the request
\* derives a user_key, writes to the store or changes its session, and the
\* request ends with 400.
C4_MissingClaimsFail ==
  [][\A r \in Requests :
       (LacksClaims(r) /\ Steps(r)) =>
         /\ store' = store
         /\ calls'[r] = calls[r]
         /\ session'[r] = session[r]
         /\ "user_key" \notin DOMAIN local'[r]
         /\ pc'[r] # "save_token_cache_to_cosmos"
         /\ (pc'[r] = "done" => response'[r].status_code = 400)]_vars

\* One sign-in with an absent oid and one with an empty tid were both answered 400.
C4_Witness ==
  \E r, q \in Requests :
    /\ LacksClaims(r) /\ Done(r) /\ Status(r) = 400
    /\ "oid" \notin DOMAIN IdPAnswer(CodeOf(r)).claims
    /\ LacksClaims(q) /\ Done(q) /\ Status(q) = 400
    /\ DictGet(IdPAnswer(CodeOf(q)).claims, "tid") = ""
    /\ store = EmptyDict

\* The last thing request r logged is that save_token_cache_to_cosmos raised.
SaveRaised(r) ==
  /\ calls[r] # <<>>
  /\ calls[r][Len(calls[r])].op = "raised"
  /\ calls[r][Len(calls[r])].by = "save_token_cache_to_cosmos"

\* C5: when the store write of /auth/callback fails, the request ends with 400,
\* its session unchanged and the store unchanged; and a callback changes its
\* session only in the step in which its write to the store went through.
C5_FailedWriteFailsExchange ==
  [][\A r \in Requests :
       /\ (Steps(r) /\ pc[r] = "save_token_cache_to_cosmos" /\ SaveRaised(r)') =>
            /\ pc'[r] = "done"
            /\ response'[r].status_code = 400
            /\ session'[r] = session[r]
            /\ store' = store
       /\ (IsCallback(r) /\ Steps(r) /\ session'[r] # session[r]) =>
            /\ calls'[r][Len(calls'[r])].op = "upsert_item"
            /\ Len(calls'[r]) = Len(calls[r]) + 1
            /\ session'[r].user_id \in DOMAIN store']_vars

\* A sign-in whose store write failed was answered 400 and left the browser
\* without an authenticated session.
C5_Witness ==
  \E r \in Requests :
    /\ IsCallback(r) /\ Done(r) /\ SaveRaised(r)
    /\ Status(r) = 400
    /\ "user_id" \notin DOMAIN session[r]
    /\ "user_id" \notin DOMAIN cookie[browser[r]]
\* Request r is a sign-in that was answered 200.
Succeeded(r) == IsCallback(r) /\ Done(r) /\ Status(r) = 200
\* The last call request r logged.
LastCall(r) == calls[r][Len(calls[r])]

\* C6: a callback answered 200 made exactly one store write, under the key
\* oid "." tid of the verified claims of its own exchange, and its session's
\* user_id is that key; two exchanges for the same (oid, tid) use the same key;
\* and every write replaces the one entry under its key by its blob and leaves
\* the other entries alone, the store changing in no other way.
C6_OneWritePerSuccessfulExchange ==
  /\ [](\A r \in Requests :
          Succeeded(r) =>
            /\ CodeOf(r) \in Codes
            /\ IdPAnswer(CodeOf(r)).kind = "tokens"
            /\ IdPAnswer(CodeOf(r)).valid
            /\ Cardinality(Writes(r)) = 1
            /\ \A i \in Writes(r) :
                 /\ calls[r][i].id = IdPAnswer(CodeOf(r)).claims.oid \o "."
                                       \o IdPAnswer(CodeOf(r)).claims.tid
                 /\ session[r].user_id = calls[r][i].id
                 /\ calls[r][i].id \in DOMAIN store)
  /\ [](\A r, q \in Requests :
          ( /\ Succeeded(r) /\ Succeeded(q)
            /\ IdPAnswer(CodeOf(r)).claims.oid = IdPAnswer(CodeOf(q)).claims.oid
            /\ IdPAnswer(CodeOf(r)).claims.tid = IdPAnswer(CodeOf(q)).claims.tid )
          => session[r].user_id = session[q].user_id)
  /\ [][\A r \in Requests :
          (Steps(r) /\ Len(calls'[r]) > Len(calls[r]) /\ LastCall(r)'.op = "upsert_item") =>
            /\ DOMAIN store' = DOMAIN store \cup {LastCall(r)'.id}
            /\ store'[LastCall(r)'.id] = LastCall(r)'.blob
            /\ \A k \in DOMAIN store \ {LastCall(r)'.id} : store'[k] = store[k]]_vars
  /\ [][store' # store =>
          \E r \in Requests : Steps(r) /\ Len(calls'[r]) > Len(calls[r])
                                /\ LastCall(r)'.op = "upsert_item"]_vars

\* The same user signed in twice: both exchanges wrote under the same key and
\* the store holds one entry, the blob of the second write.
C6_Witness ==
  \E r, q \in Requests :
    /\ r < q /\ Succeeded(r) /\ Succeeded(q)
    /\ CodeOf(r) = CodeOf(q)
    /\ DOMAIN store = {session[q].user_id}
    /\ \E i \in Writes(q) : store[session[q].user_id] = calls[q][i].blob
    /\ \E i \in Writes(r) : store[session[r].user_id] # calls[r][i].blob

\* C7: /arcade/verify with a flow_id in a session without user_id is answered
\* 401 at once, without any call to the gateway.
C7_VerifyNeedsLogin ==
  \A r \in Requests :
    ( /\ IsVerify(r)
      /\ DictGet(query_params[r], "flow_id") \notin {NONE, ""}
      /\ "user_id" \notin DOMAIN session[r] ) =>
      /\ Done(r)
      /\ Status(r) = 401
      /\ calls[r] = <<>>

\* A verify request was answered 401 in a browser whose only callback had failed.
C7_Witness ==
  \E r, q \in Requests :
    /\ q < r /\ browser[q] = browser[r]
    /\ IsCallback(q) /\ Done(q) /\ Status(q) = 400 /\ CodeOf(q) \in Codes
    /\ IsVerify(r) /\ Done(r) /\ Status(r) = 401
    /\ DictGet(query_params[r], "flow_id") \in FlowIds

Returned(r, by) ==
  {calls[r][i].result : i \in {j \in Indices(calls[r]) :
                                  calls[r][j].op = "returned" /\ calls[r][j].by = by}}

\* C9: when both gateway calls of a verify request returned, the response is a
\* success exactly when the awaited status is "completed": the redirect to
\* next_uri when the gateway gave a non-empty one, else the 200 page; for any other status
\* it is a 400 whose body carries the status.
C9_SuccessIffCompleted ==
  \A r \in Requests :
    \A c \in Returned(r, "confirm_user") : \A w \in Returned(r, "wait_for_completion") :
      /\ IsVerify(r) /\ Done(r)
      /\ (Status(r) \in {200, 307}) <=> (w.status = "completed")
      /\ (w.status = "completed" /\ c.next_uri \notin {NONE, ""}) =>
           (Status(r) = 307 /\ response[r].location = c.next_uri)
      /\ (w.status = "completed" /\ c.next_uri \in {NONE, ""}) =>
           (Status(r) = 200 /\ response[r].location = NONE)
      /\ (w.status # "completed") =>
           /\ Status(r) = 400
           /\ \E k \in Indices(response[r].body) : response[r].body[k] = w.status

\* A verify request whose flow completed was redirected to the gateway's next_uri.
C9_Witness ==
  \E r \in Requests :
    /\ IsVerify(r) /\ Done(r) /\ Status(r) = 307
    /\ \E c \in Returned(r, "confirm_user") : response[r].location = c.next_uri
    /\ \E w \in Returned(r, "wait_for_completion") : w.status = "completed"

\* The positions in request r's log of the calls of the operation op.
CallsOf(r, op) == {i \in Indices(calls[r]) : calls[r][i].op = op}

\* C10: a verify request calls confirm_user at most once and
\* wait_for_completion at most once, the latter right after confirm_user
\* returned; when a gateway call raises, that is the last thing the request
\* does with the gateway and the request is answered 400.
C10_NoRetry ==
  \A r \in Requests :
    IsVerify(r) =>
      /\ Cardinality(CallsOf(r, "confirm_user")) <= 1
      /\ Cardinality(CallsOf(r, "wait_for_completion")) <= 1
      /\ \A i \in CallsOf(r, "wait_for_completion") :
           /\ i > 1
           /\ calls[r][i - 1].op = "returned"
           /\ calls[r][i - 1].by = "confirm_user"
           /\ CallsOf(r, "confirm_user") = {i - 2}
      /\ \A i \in CallsOf(r, "raised") :
           /\ i = Len(calls[r])
           /\ Done(r)
           /\ Status(r) = 400

\* wait_for_completion raised after confirm_user had returned, and the request
\* was answered 400 after one call of each.
C10_Witness ==
  \E r \in Requests :
    /\ IsVerify(r) /\ Done(r) /\ Status(r) = 400
    /\ Len(calls[r]) = 4
    /\ calls[r][4].op = "raised" /\ calls[r][4].by = "wait_for_completion"

\* The texts of the exceptions the identity provider, the store and the
\* gateway raise.
ExceptionTexts ==
  {IdPAnswer("code_raise").exc, "CosmosHttpResponseError: unavailable",
   "CosmosHttpResponseError: write failed", "CosmosHttpResponseError: read failed",
   "invalid_grant: refresh token revoked", GatewayError}

\* C11: the body of a response of /auth/callback or /arcade/verify never
\* contains the text of the exception that failed the request.
C11_NoExceptionTextInBody ==
  \A r \in Requests :
    Done(r) /\ (IsCallback(r) \/ IsVerify(r)) =>
      \A i \in Indices(response[r].body) : response[r].body[i] \notin ExceptionTexts

\* The runtime context holds a non-empty identity under
\* configurable.langgraph_auth_user.
HasIdentity(runtime) ==
  /\ "configurable" \in DOMAIN runtime
  /\ "langgraph_auth_user" \in DOMAIN runtime.configurable
  /\ "identity" \in DOMAIN runtime.configurable.langgraph_auth_user
  /\ runtime.configurable.langgraph_auth_user.identity \notin {NONE, ""}

\* The invocations r that created a gateway client, fetched tools or built an agent.
UsedGateway(r) == calls[r] # <<>> \/ "agent" \in DOMAIN response[r]

\* C12: an invocation of the graph factory whose runtime context lacks the
\* configurable section, the langgraph_auth_user descriptor or a non-empty
\* identity fails without creating a gateway client, fetching a tool list or
\* building an agent; with an identity, the client is configured with an
\* Arcade-User-Id header equal to exactly that identity.
C12_BindingNeedsIdentity ==
  \A r \in Requests :
    pc[r] # "new" =>
      LET runtime == local[r].runtime IN
      IF HasIdentity(runtime)
        THEN /\ CallsOf(r, "MultiServerMCPClient") = {1}
             /\ \A i \in Indices(calls[r]) :
                  calls[r][i].config.arcade.headers["Arcade-User-Id"]
                    = runtime.configurable.langgraph_auth_user.identity
        ELSE /\ Done(r)
             /\ "raised" \in DOMAIN response[r]
             /\ ~UsedGateway(r)

C12_Witness ==
  \E r, q \in Requests :
    /\ Done(r) /\ ~HasIdentity(local[r].runtime) /\ "raised" \in DOMAIN response[r]
    /\ Done(q) /\ HasIdentity(local[q].runtime) /\ "agent" \in DOMAIN response[q]
    /\ calls[q][1].config.arcade.headers["Arcade-User-Id"] = "o2.t1"

IsLogout(r) == endpoint[r] = "/auth/logout"
IsTokens(r) == endpoint[r] = "/auth/tokens"
\* Request r needs a logged-in session: /auth/tokens, or /arcade/verify with a flow_id.
NeedsLogin(r) == IsTokens(r) \/ (IsVerify(r) /\ Truthy(DictGet(query_params[r], "flow_id")))
\* Request r arrives in this step.
Arrives(r) == pc[r] = "new" /\ pc'[r] # "new"
\* Request r is answered in this step.
Finishes(r) == pc[r] # "done" /\ pc'[r] = "done"
HoldsUser(sess) == "user_id" \in DOMAIN sess

\* A successful sign-in of the browser of q and r was saved after logout q and
\* before request r arrived (auth_time counts the requests arrived so far).
CallbackBetween(q, r) ==
  \E p \in DOMAIN pc :
    /\ Succeeded(p) /\ browser[p] = browser[q]
    /\ q <= session[p].auth_time /\ session[p].auth_time < r

Expires(b) == cookie[b] # EmptyDict /\ cookie'[b] = EmptyDict /\ pc' = pc

\* C14: a step that ends a session, a logout or the expiry of the cookie,
\* leaves the store as it was: every entry is still there with the same blob.
C14_SessionEndKeepsStore ==
  [][((\E r \in Requests : Arrives(r) /\ IsLogout(r)') \/ (\E b \in Browsers : Expires(b)))
       => store' = store]_vars

\* A user signed in and then logged out: the entry under the user's key is there.
C14_Witness ==
  \E p, q \in Requests :
    /\ Succeeded(p) /\ IsLogout(q) /\ Done(q) /\ browser[p] = browser[q]
    /\ session[p].auth_time < q
    /\ cookie[browser[q]] = EmptyDict
    /\ session[p].user_id \in DOMAIN store

IsStatus(r) == endpoint[r] = "/auth/status"

\* C15: /auth/status answers authenticated = TRUE exactly when the session of
\* the request holds a signed-in user (the user_key a successful callback put
\* there, not cleared since), and FALSE otherwise.
C15_StatusTellsSignedIn ==
  \A r \in Requests :
    IsStatus(r) /\ Done(r) =>
      response[r].body = <<"authenticated", HoldsUser(session[r])>>

\* C16: the in-memory state shared by the requests stays as it was at startup,
\* and what a successful callback persisted is what its own exchange alone
\* produces, whatever other requests were handled before or meanwhile.
C16_NoSharedMutableState ==
  /\ token_cache = {}
  /\ \A r \in Requests :
       Succeeded(r) =>
         \A i \in Writes(r) :
           calls[r][i].blob = Serialize(CacheAdd({}, acquire_token_result(CodeOf(r), r)))

\* The store calls of request r: the lookups and the writes.
StoreCalls(r) == CallsOf(r, "read_item") \cup Writes(r)

IsLogin(r) == endpoint[r] = "/auth/login"
\* The code of request r is one the identity provider exchanges for tokens with
\* a valid signature and the oid and tid claims.
ValidCode(r) ==
  /\ CodeOf(r) \in Codes
  /\ IdPAnswer(CodeOf(r)).kind = "tokens"
  /\ ~BadSignature(r) /\ ~LacksClaims(r)
\* The store failed request r: the container was unavailable or the write raised.
StoreFailed(r) ==
  \/ SaveRaised(r)
  \/ \E i \in Indices(response[r].body) :
       response[r].body[i] = "CosmosHttpResponseError: unavailable"
\* The state parameter of callback r is the nonce its session holds.
StateMatches(r) == DictGet(query_params[r], "state") = DictGet(session[r], "state")

\* C18: /auth/login leaves in the session a state nonce no other login issued;
\* a callback with a valid code that the store does not fail is answered 200
\* with one store write and a populated session, whether or not the session
\* holds a nonce and whether or not the state parameter matches it.
C18_CallbackIgnoresNonce ==
  /\ \A r \in Requests :
       IsLogin(r) /\ Done(r) =>
         /\ "state" \in DOMAIN session[r]
         /\ \A q \in Requests \ {r} :
              IsLogin(q) /\ Done(q) => session[q].state # session[r].state
  /\ \A r \in Requests :
       IsCallback(r) /\ Done(r) /\ ValidCode(r) /\ ~StoreFailed(r) =>
         /\ Status(r) = 200
         /\ Cardinality(Writes(r)) = 1
         /\ HoldsUser(session[r])

\* After a login in the same browser, a callback with a valid code and a state
\* that is not the session's nonce was answered 200.
C18_Witness ==
  \E q, r \in Requests :
    /\ IsLogin(q) /\ Done(q)
    /\ Succeeded(r) /\ browser[r] = browser[q]
    /\ "state" \in DOMAIN session[r] /\ "state" \in DOMAIN query_params[r]
    /\ ~StateMatches(r)

\* C19: in every state, the user_key held by a browser's session cookie, or by
\* the session of a request being handled, has an entry in the store.
C19_SessionUserHasEntry ==
  /\ \A b \in Browsers :
       HoldsUser(cookie[b]) => cookie[b].user_id \in DOMAIN store
  /\ \A r \in Requests :
       (pc[r] # "new" /\ HoldsUser(session[r])) => session[r].user_id \in DOMAIN store

\* One browser's cookie holds a user_key while another sign-in's write failed.
C19_Witness ==
  \E b \in Browsers, r \in Requests :
    /\ HoldsUser(cookie[b]) /\ cookie[b].user_id \in DOMAIN store
    /\ IsCallback(r) /\ Done(r) /\ SaveRaised(r) /\ ~HoldsUser(session[r])

====
